---------------------------- MODULE Spec2Model ----------------------------
(***************************************************************************)
(* Model of the bnuoj virtual judger: BaseJudger (connection to the        *)
(* dispatcher, frame reassembly, judging pipeline) driven by a backend     *)
(* that is either A2ojJudger or another subclass of BaseJudger.            *)
(*                                                                         *)
(* Conventions                                                             *)
(*  - onData_ receives a Buffer, as its @param says; a chunk is a          *)
(*    sequence of bytes 0..255.  Buffer stands for Node's Buffer class.    *)
(*  - A job object carries runid and language; vid and source are handed   *)
(*    to the backend untouched and decide nothing, so they are left out.   *)
(*  - A backend response and the promise handler it triggers are one       *)
(*    step: the handler runs in the microtask that follows the settle,     *)
(*    before any other event.                                              *)
(*  - An exception that leaves a socket event handler is an uncaught       *)
(*    exception: the process ends (crashed).  An exception inside a        *)
(*    promise handler is swallowed by the promise.                         *)
(***************************************************************************)
EXTENDS Integers, Sequences, FiniteSets, TLC

(* ------------------------------ bounds -------------------------------- *)
MaxJobs == 2
MaxDisconnects == 1
\* Frames the dispatcher sends in the runs checked for liveness.
MaxLiveJobs == 1

Jobs == 1..MaxJobs

(* ------------------------- program constants -------------------------- *)
RESULT_REPORT_ == 1003

ERRORS == [SAME_CODE |-> "Same code",
           INVALID_LANGUAGE |-> "Invalid language",
           COMPILE_ERROR |-> "Compile error",
           LOGIN_FAILED |-> "Login failed",
           OTHERS |-> "Other"]

\* A2ojJudger.languageTable_: dispatcher language code -> A2OJ language id.
languageTable_ == [l \in 1..10 |->
   CASE l = 1 -> 41 [] l = 2 -> 11 [] l = 3 -> 10 [] l = 4 -> 22 [] l = 5 -> 4
     [] l = 6 -> 27 [] l = 7 -> 5  [] l = 8 -> 3  [] l = 9 -> 17 [] l = 10 -> 7]

\* Language codes the dispatcher sends in the model: one mapped, one not.
Languages == {1, 11}

\* Backends: A2ojJudger as written; a subclass that implements getStatus
\* but keeps the throwing getCompileInfo; a subclass that implements every
\* method as the JSDoc of BaseJudger declares it (returns promises).
Backends == {"A2oj", "PartialStub", "FullStub"}

VARIABLES
  backend,           \* which subclass of BaseJudger runs
  conn,              \* client_ socket: new/connecting/connected/errored/closed
  timers,            \* pending reconnect_ timeouts
  connectListeners,  \* 'connect' callbacks registered by connect_ and not yet run
  disconnects,       \* errors and closes so far (bounded)
  written,           \* client_.write calls, in order
  wire,              \* bytes the dispatcher has sent that onData_ has not yet seen
  sent,              \* frames the dispatcher has sent
  receivedData_, receivedBytes_, readBytes_,   \* the frame buffer
  loggedIn_, statusUrl_,
  crashed,           \* an uncaught exception ended the process
  lastFrame,         \* the dispatcher's latest frame; the chunks and bytes of it onData_ has seen
  dispatched,        \* the objects onData_ has passed to maybeJudge_, in order
  pc, trace, info    \* per job: pipeline position, call history, info object

vars == <<backend, conn, timers, connectListeners, disconnects, written, wire,
          sent, receivedData_, receivedBytes_, readBytes_, loggedIn_,
          statusUrl_, crashed, lastFrame, dispatched, pc, trace, info>>

connVars   == <<conn, timers, connectListeners, disconnects>>
bufVars    == <<receivedData_, receivedBytes_, readBytes_, dispatched>>
jobVars    == <<pc, trace, info, statusUrl_>>


(* ------------------------------ helpers ------------------------------- *)
Append2(seq, a, b) == Append(Append(seq, a), b)

RECURSIVE Repeat(_, _)
Repeat(x, n) == IF n = 0 THEN <<>> ELSE <<x>> \o Repeat(x, n - 1)

\* How many elements of seq equal e.
CountIn(seq, e) == Cardinality({k \in DOMAIN seq : seq[k] = e})

(* ---------------------------- message codec --------------------------- *)
\* Buffer.readIntBE(0, 4): the first four bytes as a signed big-endian integer.
readIntBE(data) ==
  LET hi == IF data[1] >= 128 THEN data[1] - 256 ELSE data[1]
  IN  ((hi * 256 + data[2]) * 256 + data[3]) * 256 + data[4]

\* Buffer.writeIntBE(n, 0, 4): n as four big-endian bytes (two's complement).
writeIntBE(n) ==
  << (n \div 16777216) % 256, (n \div 65536) % 256, (n \div 256) % 256, n % 256 >>

\* data.slice(4)
slice4(data) == SubSeq(data, 5, Len(data))

\* The JSON text of a job, one byte per token: '{' runid language '}'.
JSONtext(job) == << 123, 48 + job.runid, 48 + job.language, 125 >>

\* JSON.parse throws on anything that is not the text of an object.
JSONparseThrows(payload) ==
  ~ ( /\ Len(payload) = 4
      /\ payload[1] = 123
      /\ payload[4] = 125
      /\ payload[2] >= 48
      /\ payload[3] >= 48 )

JSONparse(payload) == [runid |-> payload[2] - 48, language |-> payload[3] - 48]

\* A frame on the dispatcher connection: 4-byte length, then the payload.
Frame(payload) == writeIntBE(Len(payload)) \o payload

\* A payload that is not JSON: the closing brace is replaced by '!'.
Garbage(job) == [JSONtext(job) EXCEPT ![4] = 33]

(* ------------------------- connection manager ------------------------- *)
\* BaseJudger.prototype.connect_: client_.connect(opts, cb) starts a
\* connection attempt and registers cb as one more 'connect' listener.
connect_ ==
  /\ conn' = "connecting"
  /\ connectListeners' = connectListeners + 1

\* reconnect_ without the setTimeout.
reconnect_NoTimer == UNCHANGED timers

\* BaseJudger.prototype.reconnect_: setTimeout(connect_, 5000).
reconnect_ == timers' = timers + 1

\* BaseJudger.prototype.start
start ==
  /\ conn = "new" /\ ~crashed
  /\ connect_
  /\ UNCHANGED <<backend, timers, disconnects, written, wire, sent, bufVars,
                 loggedIn_, crashed, lastFrame, jobVars>>

\* The socket connects: every registered 'connect' callback runs once and
\* writes the secret.  The dispatcher's byte stream starts afresh.
SocketConnect ==
  /\ conn = "connecting" /\ ~crashed
  /\ conn' = "connected"
  /\ written' = written \o Repeat([kind |-> "secret"], connectListeners)
  /\ connectListeners' = 0
  /\ wire' = <<>>
  /\ UNCHANGED <<backend, timers, disconnects, sent, bufVars, loggedIn_,
                 crashed, lastFrame, jobVars>>

\* BaseJudger.prototype.onError_: the socket emits 'error' (a refused
\* connect, a reset); the close event follows.
onError_ ==
  /\ conn \in {"connecting", "connected"} /\ ~crashed
  /\ disconnects < MaxDisconnects
  /\ conn' = "errored"
  /\ reconnect_
  /\ disconnects' = disconnects + 1
  /\ wire' = <<>>
  /\ UNCHANGED <<backend, connectListeners, written, sent, bufVars, loggedIn_,
                 crashed, lastFrame, jobVars>>

\* BaseJudger.prototype.onClose_(hadError): 'close' after an error
\* (hadError = TRUE) or because the dispatcher closed the connection.
onClose_(hadError) ==
  /\ ~crashed
  /\ IF hadError
       THEN /\ conn = "errored"
            /\ UNCHANGED <<timers, disconnects>>
       ELSE /\ conn = "connected"
            /\ disconnects < MaxDisconnects
            /\ disconnects' = disconnects + 1
            /\ reconnect_
  /\ conn' = "closed"
  /\ wire' = <<>>
  /\ UNCHANGED <<backend, connectListeners, written, sent, bufVars, loggedIn_,
                 crashed, lastFrame, jobVars>>

\* The 5000 ms timeout of reconnect_ fires and runs connect_.  'close' is
\* emitted right after 'error', so the socket is closed by then.
ReconnectTimer ==
  /\ timers > 0 /\ conn = "closed" /\ ~crashed
  /\ timers' = timers - 1
  /\ connect_
  /\ UNCHANGED <<backend, disconnects, written, wire, sent, bufVars, loggedIn_,
                 crashed, lastFrame, jobVars>>

\* The dispatcher sends one frame, a job or a payload that is not JSON,
\* once the previous frame has been delivered.
DispatcherSend(language, valid) ==
  /\ conn = "connected" /\ ~crashed
  /\ wire = <<>> /\ sent < MaxJobs
  /\ sent' = sent + 1
  /\ LET job == [runid |-> sent + 1, language |-> language]
     IN  /\ wire' = Frame(IF valid THEN JSONtext(job) ELSE Garbage(job))
         /\ lastFrame' = [job |-> job, valid |-> valid, chunks |-> 0, bytes |-> 0]
  /\ UNCHANGED <<backend, connVars, written, bufVars, loggedIn_, crashed, jobVars>>


(* ------------------------------ backends ------------------------------ *)
\* A2ojJudger.getStatus never settles its promise once statusUrl_ is set:
\* the while loop only issues requests.
pollsBusy(b) == b = "A2oj"

\* getCompileInfo of A2ojJudger and of BaseJudger throws instead of
\* returning a promise.
compileInfoThrows(b) == b \in {"A2oj", "PartialStub"}

\* Neither BaseJudger nor A2ojJudger defines getWaitTime.
hasGetWaitTime(b) == b = "FullStub"

\* getLanguage without the check of the table.
getLanguageNeverThrows(language) == FALSE

\* A2ojJudger.prototype.getLanguage throws when the table has no entry.
getLanguageThrows(language) == language \notin DOMAIN languageTable_

getLanguage(language) ==
  IF language \in DOMAIN languageTable_ THEN languageTable_[language] ELSE 0

\* What getStatus resolves with when the backend has a verdict.
StatusResult(verdict) ==
  [memoryUsed |-> "256", timeUsed |-> "15", result |-> verdict, remoteRunid |-> "999"]

Verdicts == {"Accepted", "Compile Error"}

(* -------------------------- judging pipeline -------------------------- *)
Call(op) == <<op, "call">>

\* Job j moves to position p; evs are the calls and settles of this step.
Step(j, p, evs) ==
  /\ pc' = [pc EXCEPT ![j] = p]
  /\ trace' = [trace EXCEPT ![j] = @ \o evs]

\* The result object BaseJudger.prototype.onFailed builds.
onFailedResult(runid, reason) ==
  [type |-> RESULT_REPORT_, runid |-> runid,
   memoryUsed |-> "0", timeUsed |-> "0", remoteRunid |-> "0", compileInfo |-> "",
   result |-> CASE reason = ERRORS.COMPILE_ERROR -> "Compile Error"
                [] reason = ERRORS.SAME_CODE -> "Judge Error (Same Code)"
                [] reason = ERRORS.INVALID_LANGUAGE -> "Judge Error (Invalid Language)"
                [] OTHER -> "Judge Error"]

\* BaseJudger.prototype.onFailed: logs, builds the result object and
\* returns; nothing is written to client_.
onFailed(j, reason, evs) ==
  /\ Step(j, "failed", Append(evs, <<"onFailed", reason>>))
  /\ UNCHANGED written

\* BaseJudger.prototype.sendResult_: the length prefix and the JSON text of
\* result are written back to back; one entry stands for the pair.
sendResult_(j, result, evs) ==
  /\ Step(j, "reported", Append(evs, <<"sendResult_", "">>))
  /\ written' = Append(written, [kind |-> "frame", payload |-> result])

\* BaseJudger.prototype.maybeJudge_, called by onData_ with the parsed object.
maybeJudge_(i) ==
  LET j == i.runid IN
  IF getLanguageThrows(i.language)
    THEN /\ info' = [info EXCEPT ![j] = i]
         /\ onFailed(j, ERRORS.INVALID_LANGUAGE, <<>>)
    ELSE /\ info' = [info EXCEPT ![j] = [i EXCEPT !.language = getLanguage(i.language)]]
         /\ IF ~loggedIn_
              THEN Step(j, "login1", <<Call("login")>>)
              ELSE Step(j, "dropped", <<>>)
         /\ UNCHANGED written

\* BaseJudger.prototype.onData_ for a chunk of the first n bytes on the wire.
onData_(n) ==
  /\ conn = "connected" /\ ~crashed
  /\ n \in 1..Len(wire)
  /\ LET data == SubSeq(wire, 1, n) IN
     /\ wire' = SubSeq(wire, n + 1, Len(wire))
     /\ lastFrame' = [lastFrame EXCEPT !.chunks = @ + 1, !.bytes = @ + n]
     /\ IF receivedBytes_ = 0
          THEN IF Len(data) < 4
                 THEN \* readIntBE(0, 4) is out of range
                      /\ crashed' = TRUE
                      /\ UNCHANGED <<bufVars, pc, trace, info, written>>
                 ELSE /\ readBytes_' = Len(data) - 4
                      /\ receivedData_' = slice4(data)
                      /\ IF Len(data) - 4 = readIntBE(data)
                           THEN IF JSONparseThrows(slice4(data))
                                  THEN /\ receivedBytes_' = readIntBE(data)
                                       /\ crashed' = TRUE
                                       /\ UNCHANGED <<dispatched, pc, trace, info, written>>
                                  ELSE /\ receivedBytes_' = 0
                                       /\ dispatched' = Append(dispatched, JSONparse(slice4(data)))
                                       /\ maybeJudge_(JSONparse(slice4(data)))
                                       /\ UNCHANGED crashed
                           ELSE /\ receivedBytes_' = readIntBE(data)
                                /\ UNCHANGED <<crashed, dispatched, pc, trace, info, written>>
          ELSE \* Buffer.concat([this.receivedBytes_, data], 2): the list
               \* holds a number, the call throws
               /\ readBytes_' = Len(data)
               /\ crashed' = TRUE
               /\ UNCHANGED <<receivedData_, receivedBytes_, dispatched, pc, trace,
                              info, written>>
  /\ UNCHANGED <<backend, connVars, sent, loggedIn_, statusUrl_>>


\* BaseJudger.prototype.onSubmitted_: calls getStatus and attaches the
\* handlers.  A2ojJudger.getStatus rejects at once when statusUrl_ is unset
\* (the reject handler of line 370 builds a bound function and drops it)
\* and otherwise never settles.
onSubmitted_(j, evs) ==
  LET evs2 == Append2(evs, <<"onSubmitted_", "">>, Call("getStatus")) IN
  /\ IF pollsBusy(backend) /\ statusUrl_' = 0
       THEN Step(j, "dropped", Append(evs2, <<"getStatus", "reject">>))
       ELSE Step(j, "polling", evs2)
  /\ UNCHANGED written

\* BaseJudger.prototype.judge_: the first submit.
judge_(j, evs) ==
  /\ Step(j, "submit1", Append(evs, Call("submit")))
  /\ UNCHANGED <<written, statusUrl_>>

\* judge_ going from the first failed submit straight to the timed retry.
judge_Tier1RejectedNoLogin(j, evs) ==
  /\ Step(j, "wait3", Append(evs, <<"setTimeout", "">>))
  /\ UNCHANGED <<written, statusUrl_>>

\* judge_, reject handler of the first submit: log in again.
judge_Tier1Rejected(j, evs) ==
  /\ Step(j, "login2", Append(evs, Call("login")))
  /\ UNCHANGED <<written, statusUrl_>>

\* judge_, resolve handler of the second login: submit again.
judge_Tier2Submit(j, evs) ==
  /\ Step(j, "submit2", Append(evs, Call("submit")))
  /\ UNCHANGED <<written, statusUrl_>>

\* judge_, reject handler of the second submit: setTimeout(f, this.getWaitTime()).
\* Where getWaitTime is not defined the argument throws inside the handler
\* and no timeout is set.
judge_Tier2Rejected(j, evs) ==
  /\ IF hasGetWaitTime(backend)
       THEN Step(j, "wait3", Append(evs, <<"setTimeout", "">>))
       ELSE Step(j, "threw", Append(evs, <<"getWaitTime", "throw">>))
  /\ UNCHANGED <<written, statusUrl_>>

\* judge_, reject handler of the third submit:
\* (err) => this.onFailed.bind(this, info, err) builds a function, calls nothing.
judge_Tier3Rejected(j, evs) ==
  /\ Step(j, "dropped", evs)
  /\ UNCHANGED <<written, statusUrl_>>

\* A rejected login handled like a resolved one: submit all the same.
onLoginRejectedSubmits(j, evs) ==
  /\ Step(j, "submit1", Append(evs, Call("submit")))
  /\ UNCHANGED <<written, statusUrl_>>

\* The reject handler of both login calls:
\* this.onFailed.bind(this, info, BaseJudger.ERRORS.LOGIN_FAILED).
onLoginRejected(j, evs) ==
  /\ onFailed(j, ERRORS.LOGIN_FAILED, evs)
  /\ UNCHANGED statusUrl_

\* login() settles: A2ojJudger.login resolves or rejects on the response.
LoginSettled(j, ok) ==
  /\ ~crashed /\ pc[j] \in {"login1", "login2"}
  /\ LET evs == << <<"login", IF ok THEN "resolve" ELSE "reject">> >> IN
     IF ok
       THEN IF pc[j] = "login1" THEN judge_(j, evs) ELSE judge_Tier2Submit(j, evs)
       ELSE onLoginRejected(j, evs)
  /\ UNCHANGED <<backend, connVars, wire, sent, bufVars, loggedIn_, crashed,
                 lastFrame, info>>

\* submit(info) settles: on success A2ojJudger.submit records statusUrl_.
SubmitSettled(j, ok) ==
  /\ ~crashed /\ pc[j] \in {"submit1", "submit2", "submit3"}
  /\ LET evs == << <<"submit", IF ok THEN "resolve" ELSE "reject">> >> IN
     IF ok
       THEN /\ statusUrl_' = j
            /\ onSubmitted_(j, evs)
       ELSE CASE pc[j] = "submit1" -> judge_Tier1Rejected(j, evs)
              [] pc[j] = "submit2" -> judge_Tier2Rejected(j, evs)
              [] pc[j] = "submit3" -> judge_Tier3Rejected(j, evs)
  /\ UNCHANGED <<backend, connVars, wire, sent, bufVars, loggedIn_, crashed,
                 lastFrame, info>>

\* The tier-3 timeout fires: the third submit.
BackoffTimer(j) ==
  /\ ~crashed /\ pc[j] = "wait3"
  /\ Step(j, "submit3", <<Call("submit")>>)
  /\ UNCHANGED <<backend, connVars, written, wire, sent, bufVars, loggedIn_,
                 crashed, lastFrame, info, statusUrl_>>

\* onResult_ without its else: the result is sent at once and again when
\* getCompileInfo settles.
onResult_SendsTwice(j, result, evs) ==
  IF result.result = "Compile Error" /\ ~compileInfoThrows(backend)
    THEN /\ Step(j, "compileInfo",
                 Append2(evs, <<"sendResult_", "">>, Call("getCompileInfo")))
         /\ written' = Append(written, [kind |-> "frame", payload |-> result])
    ELSE sendResult_(j, result, evs)

\* BaseJudger.prototype.onResult_
onResult_(j, result, evs) ==
  IF result.result = "Compile Error"
    THEN /\ IF compileInfoThrows(backend)
              THEN Step(j, "threw", Append(evs, <<"getCompileInfo", "throw">>))
              ELSE Step(j, "compileInfo", Append(evs, Call("getCompileInfo")))
         /\ UNCHANGED written
    ELSE sendResult_(j, result, evs)

\* getStatus() settles (a backend whose getStatus settles).  The reject
\* handler of onSubmitted_ builds a bound function and calls nothing.
StatusSettled(j, ok, verdict) ==
  /\ ~crashed /\ pc[j] = "polling" /\ ~pollsBusy(backend)
  /\ LET evs == << <<"getStatus", IF ok THEN "resolve" ELSE "reject">> >> IN
     IF ok
       THEN onResult_(j, StatusResult(verdict) @@
                         [type |-> RESULT_REPORT_, runid |-> info[j].runid], evs)
       ELSE Step(j, "dropped", evs) /\ UNCHANGED written
  /\ UNCHANGED <<backend, connVars, wire, sent, bufVars, loggedIn_, crashed,
                 lastFrame, info, statusUrl_>>

\* getCompileInfo() settles: both handlers of onResult_ send the result.
CompileInfoSettled(j, ok) ==
  /\ ~crashed /\ pc[j] = "compileInfo"
  /\ LET result == StatusResult("Compile Error") @@
                     [type |-> RESULT_REPORT_, runid |-> info[j].runid]
     IN  sendResult_(j, result @@ [compileInfo |-> IF ok THEN "compiler output" ELSE ""],
                     << <<"getCompileInfo", IF ok THEN "resolve" ELSE "reject">> >>)
  /\ UNCHANGED <<backend, connVars, wire, sent, bufVars, loggedIn_, crashed,
                 lastFrame, info, statusUrl_>>

(* --------------------------- specification ---------------------------- *)
Init ==
  /\ backend \in Backends
  /\ conn = "new"
  /\ timers = 0
  /\ connectListeners = 0
  /\ disconnects = 0
  /\ written = <<>>
  /\ wire = <<>>
  /\ sent = 0
  /\ receivedData_ = <<>>
  /\ receivedBytes_ = 0
  /\ readBytes_ = 0
  /\ loggedIn_ = FALSE
  /\ statusUrl_ = 0
  /\ crashed = FALSE
  /\ lastFrame = [job |-> [runid |-> 0, language |-> 0], valid |-> TRUE,
                  chunks |-> 0, bytes |-> 0]
  /\ dispatched = <<>>
  /\ pc = [j \in Jobs |-> "idle"]
  /\ trace = [j \in Jobs |-> <<>>]
  /\ info = [j \in Jobs |-> [runid |-> 0, language |-> 0]]

Next ==
  \/ start
  \/ SocketConnect
  \/ onError_
  \/ \E hadError \in BOOLEAN : onClose_(hadError)
  \/ ReconnectTimer
  \/ \E language \in Languages, valid \in BOOLEAN : DispatcherSend(language, valid)
  \/ \E n \in 1..Len(wire) : onData_(n)
  \/ \E j \in Jobs, ok \in BOOLEAN : LoginSettled(j, ok)
  \/ \E j \in Jobs, ok \in BOOLEAN : SubmitSettled(j, ok)
  \/ \E j \in Jobs : BackoffTimer(j)
  \/ \E j \in Jobs, ok \in BOOLEAN, verdict \in Verdicts : StatusSettled(j, ok, verdict)
  \/ \E j \in Jobs, ok \in BOOLEAN : CompileInfoSettled(j, ok)

Spec == Init /\ [][Next]_vars


\* Scheduling the runtime and the environment guarantee: a due timeout
\* fires, 'close' follows 'error', and the dispatcher, which is assumed to
\* be reachable in the end, accepts one of any endless series of attempts.
Fairness ==
  /\ WF_vars(ReconnectTimer)
  /\ WF_vars(onClose_(TRUE))
  /\ SF_vars(SocketConnect)

\* Next with the dispatcher sending at most MaxLiveJobs frames.
LiveNext ==
  \/ start
  \/ SocketConnect
  \/ onError_
  \/ \E hadError \in BOOLEAN : onClose_(hadError)
  \/ ReconnectTimer
  \/ \E language \in Languages, valid \in BOOLEAN :
       sent < MaxLiveJobs /\ DispatcherSend(language, valid)
  \/ \E n \in 1..Len(wire) : onData_(n)
  \/ \E j \in Jobs, ok \in BOOLEAN : LoginSettled(j, ok)
  \/ \E j \in Jobs, ok \in BOOLEAN : SubmitSettled(j, ok)
  \/ \E j \in Jobs : BackoffTimer(j)
  \/ \E j \in Jobs, ok \in BOOLEAN, verdict \in Verdicts : StatusSettled(j, ok, verdict)
  \/ \E j \in Jobs, ok \in BOOLEAN : CompileInfoSettled(j, ok)

LiveSpec == Init /\ [][LiveNext]_vars /\ Fairness

(* ------------------------------- claims ------------------------------- *)
\* Events of job j's history.
Has(j, e) == \E k \in DOMAIN trace[j] : trace[j][k] = e
Calls(j, op) == CountIn(trace[j], Call(op))
Outcomes(j, op) == SelectSeq(trace[j], LAMBDA e : e[1] = op /\ e[2] # "call")
Rejected(op) == <<op, "reject">>
Resolved(op) == <<op, "resolve">>
IsPrefix(p, seq) == Len(p) <= Len(seq) /\ SubSeq(seq, 1, Len(p)) = p

\* The pipeline of job j has started and nothing is pending for it.
AtRest(j) == pc[j] \in {"failed", "dropped", "threw", "reported"}
InFlight(j) == pc[j] \in {"login1", "submit1", "login2", "submit2", "wait3",
                          "submit3", "polling", "compileInfo"}

\* The verdict frames written for runid j.
VerdictsFor(j) ==
  SelectSeq(written, LAMBDA w : w.kind = "frame" /\ w.payload.runid = j)

\* C1: every job dispatched to maybeJudge_ gets exactly one verdict frame
\* with its runid: never more than one, and one once nothing is pending
\* for the job any more.
C1_ExactlyOneVerdict ==
  \A j \in Jobs :
    /\ Len(VerdictsFor(j)) <= 1
    /\ AtRest(j) => Len(VerdictsFor(j)) = 1

\* C2: whenever onFailed(info, reason) has been invoked, the synthesized
\* verdict (runid of the job, "0" for memoryUsed, timeUsed and remoteRunid,
\* empty compileInfo) has been written to the socket.
C2_FailedSendsVerdict ==
  \A j \in Jobs : \A reason \in {ERRORS.INVALID_LANGUAGE, ERRORS.LOGIN_FAILED} :
    Has(j, <<"onFailed", reason>>) =>
      \E k \in DOMAIN written :
        /\ written[k].kind = "frame"
        /\ written[k].payload = onFailedResult(j, reason)

\* C3: when the first submit of a job fails and the second succeeds, the
\* job's history is exactly login, submit, login again, submit, then
\* onSubmitted_: two submit calls, one re-login between them, no timed
\* retry and no third submit.
C3_Tier2ReachesSubmitted ==
  \A j \in Jobs :
    Outcomes(j, "submit") = <<Rejected("submit"), Resolved("submit")>> =>
      /\ IsPrefix(<< Call("login"), Resolved("login"), Call("submit"), Rejected("submit"),
                     Call("login"), Resolved("login"), Call("submit"), Resolved("submit"),
                     <<"onSubmitted_", "">> >>, trace[j])
      /\ Calls(j, "submit") = 2
      /\ Calls(j, "login") = 2
      /\ ~Has(j, <<"setTimeout", "">>)

C3_Witness ==
  \E j \in Jobs :
    /\ Outcomes(j, "submit") = <<Rejected("submit"), Resolved("submit")>>
    /\ Has(j, <<"onSubmitted_", "">>)

\* C4: when the first two submits of a job fail, the pipeline starts the
\* backoff wait, and when the third submit then succeeds the job has had
\* three submit calls and onSubmitted_ has been called for it.
C4_Tier3ReachesSubmitted ==
  \A j \in Jobs :
    /\ IsPrefix(<<Rejected("submit"), Rejected("submit")>>, Outcomes(j, "submit"))
         => Has(j, <<"setTimeout", "">>)
    /\ Outcomes(j, "submit") =
         <<Rejected("submit"), Rejected("submit"), Resolved("submit")>>
         => Calls(j, "submit") = 3 /\ Has(j, <<"onSubmitted_", "">>)

\* C5: when every submit of a job has failed and nothing is pending for the
\* job, exactly three submit calls have been made and onFailed has been
\* invoked for the job.
C5_ThreeSubmitsThenFailed ==
  \A j \in Jobs :
    ( /\ AtRest(j)
      /\ Outcomes(j, "submit") # <<>>
      /\ \A k \in DOMAIN Outcomes(j, "submit") :
           Outcomes(j, "submit")[k] = Rejected("submit")
      /\ \A k \in DOMAIN Outcomes(j, "login") :
           Outcomes(j, "login")[k] = Resolved("login") )
    => /\ Calls(j, "submit") = 3
       /\ \E k \in DOMAIN trace[j] : trace[j][k][1] = "onFailed"

\* C6: when getStatus gave "Compile Error" and getCompileInfo failed, by a
\* rejected promise or by throwing, a verdict with empty compileInfo and
\* the backend's other fields has been sent for the job.
C6_CompileInfoNeverFails ==
  \A j \in Jobs :
    (Has(j, Rejected("getCompileInfo")) \/ Has(j, <<"getCompileInfo", "throw">>)) =>
      \E k \in DOMAIN written :
        /\ written[k].kind = "frame"
        /\ written[k].payload =
             StatusResult("Compile Error") @@
               [type |-> RESULT_REPORT_, runid |-> j, compileInfo |-> ""]

\* C7: a job frame is dispatched exactly once, when its last byte has been
\* delivered and not before, however its bytes are split into chunks, and
\* the frame buffer is empty afterwards.
C7_ChunkedFrameDispatchedOnce ==
  (sent > 0 /\ lastFrame.valid) =>
    IF lastFrame.bytes = Len(Frame(JSONtext(lastFrame.job)))
      THEN CountIn(dispatched, lastFrame.job) = 1 /\ receivedBytes_ = 0
      ELSE CountIn(dispatched, lastFrame.job) = 0

\* C8: at most one job is in flight at any time.
C8_SingleInFlight ==
  Cardinality({j \in Jobs : InFlight(j)}) <= 1

C10_InvalidLanguageNoCalls ==
  \A k \in DOMAIN dispatched :
    dispatched[k].language \notin DOMAIN languageTable_ =>
      trace[dispatched[k].runid] = << <<"onFailed", ERRORS.INVALID_LANGUAGE>> >>

C10_Witness ==
  \E k \in DOMAIN dispatched :
    /\ dispatched[k].language \notin DOMAIN languageTable_
    /\ pc[dispatched[k].runid] = "failed"

\* C11: a job that succeeds on its first submit and whose getStatus gives a
\* result other than "Compile Error" gets one verdict frame with exactly
\* the seven fields type = 1003, runid, the four values of getStatus, and
\* compileInfo = "".
C11_VerdictHasSevenFields ==
  \A j \in Jobs :
    ( /\ Outcomes(j, "submit") = <<Resolved("submit")>>
      /\ Has(j, Resolved("getStatus"))
      /\ Calls(j, "getCompileInfo") = 0
      /\ ~Has(j, <<"getCompileInfo", "throw">>) )
    => VerdictsFor(j) =
         << [kind |-> "frame",
             payload |-> StatusResult("Accepted") @@
                           [type |-> RESULT_REPORT_, runid |-> j, compileInfo |-> ""]] >>

\* C12: verdict frames are written in the order in which their jobs were
\* received (the dispatcher numbers its jobs in the order it sends them).
C12_VerdictsInArrivalOrder ==
  \A a, b \in DOMAIN written :
    (a < b /\ written[a].kind = "frame" /\ written[b].kind = "frame")
      => written[a].payload.runid < written[b].payload.runid

\* The dispatcher's latest frame has reached onData_ whole, in one chunk.
DeliveredWhole ==
  /\ sent > 0
  /\ lastFrame.chunks = 1
  /\ lastFrame.bytes = Len(Frame(JSONtext(lastFrame.job)))

\* C13: a complete frame whose payload is not JSON dispatches no job and
\* leaves the judger running with an empty frame buffer, ready for the
\* frames that follow the reconnect.
C13_BadJsonKeepsRunning ==
  (DeliveredWhole /\ ~lastFrame.valid) =>
    /\ CountIn(dispatched, lastFrame.job) = 0
    /\ ~crashed
    /\ receivedBytes_ = 0

\* C14: when getStatus has rejected for a job, onFailed has been invoked
\* for that job.
C14_StatusFailureFails ==
  \A j \in Jobs :
    Has(j, Rejected("getStatus")) =>
      \E k \in DOMAIN trace[j] : trace[j][k][1] = "onFailed"

\* C15: when a login of a job has failed, the initial one or the re-login
\* of tier 2, the job's history ends with that rejection followed by
\* onFailed(LOGIN_FAILED): nothing, and no submit in particular, comes after.
C15_LoginFailureFails ==
  \A j \in Jobs :
    Has(j, Rejected("login")) =>
      /\ Len(trace[j]) >= 2
      /\ trace[j][Len(trace[j]) - 1] = Rejected("login")
      /\ trace[j][Len(trace[j])] = <<"onFailed", ERRORS.LOGIN_FAILED>>
      /\ CountIn(trace[j], Rejected("login")) = 1

\* One job failed at its initial login, another at the re-login of tier 2.
C15_Witness ==
  \E j, k \in Jobs :
    /\ Has(j, Rejected("login")) /\ Calls(j, "login") = 1 /\ pc[j] = "failed"
    /\ Has(k, Rejected("login")) /\ Calls(k, "login") = 2 /\ pc[k] = "failed"

\* C16: after a connection loss, a job frame that reaches onData_ whole is
\* read from its own length prefix and dispatched as the job the
\* dispatcher sent, whatever part of an earlier frame the old connection
\* had delivered.
C16_FrameBufferPerConnection ==
  (disconnects > 0 /\ DeliveredWhole /\ lastFrame.valid) =>
    /\ CountIn(dispatched, lastFrame.job) = 1
    /\ receivedBytes_ = 0

\* C17: a getStatus call never stays pending for good: while the promise
\* of a running judger is pending, the step that settles it (a resolve
\* with a verdict, or a reject such as the timeout) is still to come.
C17_GetStatusSettles ==
  \A j \in Jobs :
    (pc[j] = "polling" /\ ~crashed) =>
      ENABLED (\E ok \in BOOLEAN, verdict \in Verdicts : StatusSettled(j, ok, verdict))

\* C18: while getStatus is pending for a job, statusUrl_ is the locator
\* that this job's own successful submit recorded.
C18_StatusUrlOfOwnSubmit ==
  \A j \in Jobs : pc[j] = "polling" => statusUrl_ = j

\* C19: no job gets two verdict frames: sendResult_ and onSubmitted_ are
\* called at most once per job, onFailed at most once, and never both
\* onSubmitted_ and onFailed for the same job.
C19_AtMostOneVerdict ==
  \A j \in Jobs :
    LET failures == SelectSeq(trace[j], LAMBDA e : e[1] = "onFailed") IN
    /\ Len(VerdictsFor(j)) <= 1
    /\ CountIn(trace[j], <<"sendResult_", "">>) <= 1
    /\ CountIn(trace[j], <<"onSubmitted_", "">>) + Len(failures) <= 1

\* A job that went through all three submit tiers and the getCompileInfo
\* handlers, and has its one verdict.
C19_Witness ==
  \E j \in Jobs :
    /\ Calls(j, "submit") = 3
    /\ Calls(j, "getCompileInfo") = 1
    /\ pc[j] = "reported"
    /\ Len(VerdictsFor(j)) = 1

\* C20: every successful connection writes the secret exactly once: the
\* step in which the socket connects appends one secret to what has been
\* written, however many connect attempts failed before.
C20_SecretOncePerConnection ==
  [][ (conn = "connecting" /\ conn' = "connected")
        => written' = Append(written, [kind |-> "secret"]) ]_vars

=============================================================================
